---- MODULE Spec2Model ----
(***************************************************************************)
(* A model of the DDSketch of sketches-rust (src/src/sketch.rs) and of its *)
(* schema mapper (src/src/protos/mappers.rs).                              *)
(*                                                                         *)
(* Values and counts are integers.  A value v stands for the real v in     *)
(* units of min_indexable_value, so min_indexed_value = 1; bin counts and  *)
(* zero_count are naturals (the f64 counts of the code, without rounding). *)
(* A quantile is k / QDen for an integer k.  Reported values are in units  *)
(* of 1 / (gamma + 1), which keeps mapping.value(i) an integer.            *)
(* Option<T> is a sequence: None == << >>, Some(x) == << x >>.             *)
(***************************************************************************)
EXTENDS Integers, Sequences, FiniteSets, TLC

VARIABLES sketch, last

vars == << sketch, last >>

\* ------------------------------------------------------------------ bounds

\* accept and merge_with are offered while get_count() stays within MaxCount
MaxCount == 3

\* the capacity (max_num_bins) the collapsing factories are called with
MaxNumBins == 2

\* the sketches handed to merge_with hold at most MaxOtherLen accepted values
MaxOtherLen == 2

\* quantiles are k / QDen
QDen == 4

\* ----------------------------------------------------------------- helpers

None == << >>

Some(x) == << x >>

Max2(a, b) == IF a >= b THEN a ELSE b

Min2(a, b) == IF a <= b THEN a ELSE b

SetMax(S) == CHOOSE x \in S : \A y \in S : y <= x

SetMin(S) == CHOOSE x \in S : \A y \in S : x <= y

RECURSIVE Pow(_, _)
Pow(g, k) == IF k <= 0 THEN 1 ELSE g * Pow(g, k - 1)

\* ----------------------------------------------------------- index mapping

\* the largest exponent the mapping can index: max_indexable_value = gamma^MaxExp
MaxExp == 3

Layouts == { "LOG", "LogCubic" }

\* IndexMapping::with_gamma_offset(layout, gamma, index_offset): Err unless
\* the layout is known and gamma > 1
WithGammaOffset(layout, gamma, index_offset) ==
    IF layout \in Layouts /\ gamma > 1
    THEN Some([ layout |-> layout, gamma |-> gamma, index_offset |-> index_offset ])
    ELSE None

\* IndexMapping::with_relative_accuracy(layout, alpha): the model's alpha gives
\* gamma = 2 and index_offset = 0
WithRelativeAccuracy(layout) == WithGammaOffset(layout, 2, 0)[1]

MinIndexableValue(m) == 1

MaxIndexableValue(m) == Pow(m.gamma, MaxExp)

\* floor(log_gamma(v)) for v >= 1
FloorLog(g, v) == CHOOSE k \in 0 .. (MaxExp + 1) : Pow(g, k) <= v /\ v < Pow(g, k + 1)

\* mapping.index(v), for v > 0
Index(m, v) == FloorLog(m.gamma, v) + m.index_offset

\* mapping.value(i): the bucket's lower bound gamma^i times 2 gamma / (gamma + 1),
\* in units of 1 / (gamma + 1)
Value(m, i) == 2 * Pow(m.gamma, i - m.index_offset + 1)

\* ------------------------------------------------------------------- store

Kinds == { "UnboundedSizeDense", "CollapsingLowestDense", "CollapsingHighestDense" }

\* the slack the dense array keeps below its first bin
ArraySlack == 1

EmptyBins == [ i \in {} |-> 0 ]

StoreNew(kind, cap) == [ kind |-> kind, cap |-> cap, bins |-> EmptyBins ]

UnboundedSizeDenseStoreNew == StoreNew("UnboundedSizeDense", 0)

\* the count of the bin at index i (0 for an absent bin)
BinCount(s, i) == IF i \in DOMAIN s.bins THEN s.bins[i] ELSE 0

RECURSIVE SumOver(_, _)
SumOver(f, S) ==
    IF S = {} THEN 0
    ELSE LET x == CHOOSE y \in S : TRUE IN f[x] + SumOver(f, S \ { x })

StoreTotalCount(s) == SumOver(s.bins, DOMAIN s.bins)

StoreIsEmpty(s) == StoreTotalCount(s) = 0

StoreMinIndex(s) == SetMin(DOMAIN s.bins)

StoreMaxIndex(s) == SetMax(DOMAIN s.bins)

\* counts[] is the dense array: counts[p] is the bin at index p + offset
StoreOffset(s) == IF DOMAIN s.bins = {} THEN 0 ELSE StoreMinIndex(s) - ArraySlack

\* get_count(p): the array slot p
StoreGetCount(s, p) == BinCount(s, p + StoreOffset(s))

\* the index a collapsing store files index i under, once i is in the store
Collapse(s, i, lo, hi) ==
    CASE s.kind = "CollapsingLowestDense" -> Max2(i, hi - s.cap + 1)
      [] s.kind = "CollapsingHighestDense" -> Min2(i, lo + s.cap - 1)
      [] OTHER -> i

\* add(index, count)
StoreAdd(s, i, c) ==
    IF c <= 0 THEN s
    ELSE LET old == DOMAIN s.bins
             lo == SetMin(old \cup { i })
             hi == SetMax(old \cup { i })
             at(j) == Collapse(s, j, lo, hi)
             new == { at(j) : j \in old \cup { i } }
         IN [ s EXCEPT !.bins =
                [ k \in new |->
                    SumOver(s.bins, { j \in old : at(j) = k })
                    + (IF at(i) = k THEN c ELSE 0) ] ]

RECURSIVE DescSeq(_)
DescSeq(S) ==
    IF S = {} THEN << >>
    ELSE LET m == SetMax(S) IN << m >> \o DescSeq(S \ { m })

RECURSIVE AscSeq(_)
AscSeq(S) ==
    IF S = {} THEN << >>
    ELSE LET m == SetMin(S) IN << m >> \o AscSeq(S \ { m })

\* get_descending_iter(), get_descending_stream(): the non-empty bins
StoreDescending(s) ==
    LET idx == DescSeq(DOMAIN s.bins)
    IN [ k \in 1 .. Len(idx) |-> << idx[k], s.bins[idx[k]] >> ]

StoreAscending(s) ==
    LET idx == AscSeq(DOMAIN s.bins)
    IN [ k \in 1 .. Len(idx) |-> << idx[k], s.bins[idx[k]] >> ]

\* add every bin of a sequence of (index, count) pairs, in order
RECURSIVE StoreAddBins(_, _)
StoreAddBins(s, bs) ==
    IF bs = << >> THEN s
    ELSE StoreAddBins(StoreAdd(s, Head(bs)[1], Head(bs)[2]), Tail(bs))

\* merge_with(stream)
StoreMergeWith(s, stream) == StoreAddBins(s, stream)

StoreClear(s) == [ s EXCEPT !.bins = EmptyBins ]

\* get_sum(mapping) = sum of count * mapping.value(index)
StoreGetSum(s, m) ==
    SumOver([ i \in DOMAIN s.bins |-> s.bins[i] * Value(m, i) ], DOMAIN s.bins)

\* ------------------------------------------------------------------ sketch

NewSketch(m, kind, cap) ==
    [ index_mapping |-> m,
      min_indexed_value |-> Max2(0, MinIndexableValue(m)),
      max_indexed_value |-> MaxIndexableValue(m),
      negative_value_store |-> StoreNew(kind, cap),
      positive_value_store |-> StoreNew(kind, cap),
      zero_count |-> 0 ]

\* the six factory methods
Factories ==
    { NewSketch(WithRelativeAccuracy(l), k,
                IF k = "UnboundedSizeDense" THEN 0 ELSE MaxNumBins) :
        l \in Layouts, k \in Kinds }

\* accept_with_count without its check of the count's sign
AcceptWithCountNoSignCheck(s, value, count) ==
    IF value < -s.max_indexed_value \/ value > s.max_indexed_value THEN s
    ELSE IF value > s.min_indexed_value
    THEN [ s EXCEPT !.positive_value_store =
             StoreAdd(@, Index(s.index_mapping, value), 1) ]
    ELSE IF value < -s.min_indexed_value
    THEN [ s EXCEPT !.negative_value_store =
             StoreAdd(@, Index(s.index_mapping, -value), 1) ]
    ELSE [ s EXCEPT !.zero_count = @ + 1 ]

\* accept_with_count with >= and <= for the > and < of its routing
AcceptWithCountInclusive(s, value, count) ==
    IF count < 0 THEN s
    ELSE IF value < -s.max_indexed_value \/ value > s.max_indexed_value THEN s
    ELSE IF value >= s.min_indexed_value
    THEN [ s EXCEPT !.positive_value_store =
             StoreAdd(@, Index(s.index_mapping, value), 1) ]
    ELSE IF value <= -s.min_indexed_value
    THEN [ s EXCEPT !.negative_value_store =
             StoreAdd(@, Index(s.index_mapping, -value), 1) ]
    ELSE [ s EXCEPT !.zero_count = @ + 1 ]

AcceptWithCount(s, value, count) ==
    IF count < 0 THEN s
    ELSE IF value < -s.max_indexed_value \/ value > s.max_indexed_value THEN s
    ELSE IF value > s.min_indexed_value
    THEN [ s EXCEPT !.positive_value_store =
             StoreAdd(@, Index(s.index_mapping, value), 1) ]
    ELSE IF value < -s.min_indexed_value
    THEN [ s EXCEPT !.negative_value_store =
             StoreAdd(@, Index(s.index_mapping, -value), 1) ]
    ELSE [ s EXCEPT !.zero_count = @ + 1 ]

Accept(s, value) == AcceptWithCount(s, value, 1)

IsEmpty(s) ==
    /\ s.zero_count = 0
    /\ StoreIsEmpty(s.negative_value_store)
    /\ StoreIsEmpty(s.positive_value_store)

Clear(s) ==
    [ s EXCEPT !.negative_value_store = StoreClear(@),
               !.positive_value_store = StoreClear(@),
               !.zero_count = 0 ]

GetCount(s) ==
    s.zero_count
    + StoreTotalCount(s.negative_value_store)
    + StoreTotalCount(s.positive_value_store)

GetSum(s) ==
    IF GetCount(s) <= 0 THEN None
    ELSE Some(StoreGetSum(s.positive_value_store, s.index_mapping)
              - StoreGetSum(s.negative_value_store, s.index_mapping))

\* get_max with >= for the > of its test of zero_count
GetMaxZeroInclusive(s) ==
    IF ~StoreIsEmpty(s.positive_value_store)
    THEN Some(Value(s.index_mapping, StoreMaxIndex(s.positive_value_store)))
    ELSE IF s.zero_count >= 0 THEN Some(0)
    ELSE IF ~StoreIsEmpty(s.negative_value_store)
    THEN Some(-Value(s.index_mapping, StoreMinIndex(s.negative_value_store)))
    ELSE None

GetMax(s) ==
    IF ~StoreIsEmpty(s.positive_value_store)
    THEN Some(Value(s.index_mapping, StoreMaxIndex(s.positive_value_store)))
    ELSE IF s.zero_count > 0 THEN Some(0)
    ELSE IF ~StoreIsEmpty(s.negative_value_store)
    THEN Some(-Value(s.index_mapping, StoreMinIndex(s.negative_value_store)))
    ELSE None

\* get_min without the negation of the negative store's representative
GetMinUnsigned(s) ==
    IF ~StoreIsEmpty(s.negative_value_store)
    THEN Some(Value(s.index_mapping, StoreMaxIndex(s.negative_value_store)))
    ELSE IF s.zero_count > 0 THEN Some(0)
    ELSE IF ~StoreIsEmpty(s.positive_value_store)
    THEN Some(Value(s.index_mapping, StoreMinIndex(s.positive_value_store)))
    ELSE None

GetMin(s) ==
    IF ~StoreIsEmpty(s.negative_value_store)
    THEN Some(-Value(s.index_mapping, StoreMaxIndex(s.negative_value_store)))
    ELSE IF s.zero_count > 0 THEN Some(0)
    ELSE IF ~StoreIsEmpty(s.positive_value_store)
    THEN Some(Value(s.index_mapping, StoreMinIndex(s.positive_value_store)))
    ELSE None

\* Some(<< sum, count >>) stands for the quotient sum / count
GetAverage(s) ==
    IF GetCount(s) <= 0 THEN None
    ELSE IF GetSum(s) = None THEN None
    ELSE Some(<< GetSum(s)[1], GetCount(s) >>)

\* n >= rank
ExceedsOrEquals(n, rankNum) == n * QDen >= rankNum

\* n > rank, for rank = rankNum / QDen
Exceeds(n, rankNum) == n * QDen > rankNum

\* the loop over a bin iterator: << TRUE, index >> at the first bin where the
\* running count exceeds the rank, else << FALSE, the running count >>
RECURSIVE WalkBins(_, _, _)
WalkBins(bins, n, rankNum) ==
    IF bins = << >> THEN << FALSE, n >>
    ELSE LET n1 == n + Head(bins)[2]
         IN IF Exceeds(n1, rankNum) THEN << TRUE, Head(bins)[1] >>
            ELSE WalkBins(Tail(bins), n1, rankNum)

\* get_value_at_quantile with q * count for its rank
GetValueAtQuantileRankCount(s, k) ==
    IF ~(0 <= k /\ k <= QDen) THEN None
    ELSE IF GetCount(s) <= 0 THEN None
    ELSE LET rankNum == k * GetCount(s)
             neg == WalkBins(StoreDescending(s.negative_value_store), 0, rankNum)
         IN IF neg[1] THEN Some(-Value(s.index_mapping, neg[2]))
            ELSE LET n == neg[2] + s.zero_count
                 IN IF Exceeds(n, rankNum) THEN Some(0)
                    ELSE LET pos == WalkBins(StoreAscending(s.positive_value_store),
                                             n, rankNum)
                         IN IF pos[1] THEN Some(Value(s.index_mapping, pos[2]))
                            ELSE None

\* get_value_at_quantile(k / QDen)
GetValueAtQuantile(s, k) ==
    IF ~(0 <= k /\ k <= QDen) THEN None
    ELSE IF GetCount(s) <= 0 THEN None
    ELSE LET rankNum == k * (GetCount(s) - 1)
             neg == WalkBins(StoreDescending(s.negative_value_store), 0, rankNum)
         IN IF neg[1] THEN Some(-Value(s.index_mapping, neg[2]))
            ELSE LET n == neg[2] + s.zero_count
                 IN IF Exceeds(n, rankNum) THEN Some(0)
                    ELSE LET pos == WalkBins(StoreAscending(s.positive_value_store),
                                             n, rankNum)
                         IN IF pos[1] THEN Some(Value(s.index_mapping, pos[2]))
                            ELSE None

\* the quantiles asked for: k / QDen, two of them outside [0, 1]
Quantiles == -1 .. (QDen + 1)

\* what every query of a sketch returns
Queries(s) ==
    [ count |-> GetCount(s), sum |-> GetSum(s), min |-> GetMin(s), max |-> GetMax(s),
      average |-> GetAverage(s), empty |-> IsEmpty(s),
      quantile |-> [ k \in Quantiles |-> GetValueAtQuantile(s, k) ] ]

\* merge_with without its comparison of the mappings
MergeWithUnchecked(s, other) ==
    [ sketch |->
        [ s EXCEPT !.negative_value_store =
                     StoreMergeWith(@, StoreDescending(other.negative_value_store)),
                   !.positive_value_store =
                     StoreMergeWith(@, StoreDescending(other.positive_value_store)),
                   !.zero_count = @ + other.zero_count ],
      res |-> "Ok" ]

\* merge_with that leaves other's zero_count out
MergeWithStoresOnly(s, other) ==
    IF s.index_mapping # other.index_mapping
    THEN [ sketch |-> s, res |-> "InvalidArgument" ]
    ELSE [ sketch |->
             [ s EXCEPT !.negative_value_store =
                          StoreMergeWith(@, StoreDescending(other.negative_value_store)),
                        !.positive_value_store =
                          StoreMergeWith(@, StoreDescending(other.positive_value_store)) ],
           res |-> "Ok" ]

\* merge_with(other): the sketch afterwards and the result
MergeWith(s, other) ==
    IF s.index_mapping # other.index_mapping
    THEN [ sketch |-> s, res |-> "InvalidArgument" ]
    ELSE [ sketch |->
             [ s EXCEPT !.negative_value_store =
                          StoreMergeWith(@, StoreDescending(other.negative_value_store)),
                        !.positive_value_store =
                          StoreMergeWith(@, StoreDescending(other.positive_value_store)),
                        !.zero_count = @ + other.zero_count ],
           res |-> "Ok" ]

\* ------------------------------------------------------------ binary codec

\* The encoded form is a sequence of numbers: a flag byte, then the numbers of
\* the block's payload, each of them one variable-length or fixed-length field.

\* FlagType
SketchFeatures == 0

PositiveStore == 1

IndexMapping == 2

NegativeStore == 3

\* Flag::with_type(flag_type, sub_flag): the marker, a u8
WithType(flag_type, sub_flag) == (flag_type + 4 * sub_flag) % 256

\* Flag::get_type: marker & 3
GetType(marker) == marker % 4

SubFlag(marker) == marker \div 4

ZERO_COUNT == WithType(SketchFeatures, 1)

\* the sub-flag of an IndexMapping block: the layout's code
LayoutCode(layout) == IF layout = "LOG" THEN 0 ELSE 3

\* IndexMappingLayout::of_flag
LayoutOfFlag(marker) ==
    CASE SubFlag(marker) = 0 -> Some("LOG")
      [] SubFlag(marker) = 3 -> Some("LogCubic")
      [] OTHER -> None

\* the sub-flag of a store block: the BinEncodingMode
BinEncodingModes == { "IndexDeltasAndCounts", "ContiguousCounts" }

ModeCode(mode) == IF mode = "IndexDeltasAndCounts" THEN 1 ELSE 3

\* BinEncodingMode::of_flag
ModeOfFlag(marker) ==
    CASE SubFlag(marker) = 1 -> Some("IndexDeltasAndCounts")
      [] SubFlag(marker) = 3 -> Some("ContiguousCounts")
      [] OTHER -> None

\* a signed variable-length integer is written zig-zag
ZigZag(n) == IF n >= 0 THEN 2 * n ELSE -2 * n - 1

UnZigZag(z) == IF z % 2 = 0 THEN z \div 2 ELSE -((z + 1) \div 2)

\* index_mapping.encode(output): the flag, then gamma and index_offset as doubles
IndexMappingEncode(m) ==
    << WithType(IndexMapping, LayoutCode(m.layout)), m.gamma, m.index_offset >>

\* store.encode(output, flag_type), in the mode the store chooses
StoreEncode(s, flag_type, mode) ==
    LET asc == StoreAscending(s)
    IN IF mode = "ContiguousCounts"
       THEN IF asc = << >>
            THEN << WithType(flag_type, ModeCode(mode)), ZigZag(0), 0 >>
            ELSE LET lo == StoreMinIndex(s)
                     n == StoreMaxIndex(s) - lo + 1
                 IN << WithType(flag_type, ModeCode(mode)), ZigZag(lo), n >>
                    \o [ k \in 1 .. n |-> BinCount(s, lo + k - 1) ]
       ELSE << WithType(flag_type, ModeCode(mode)), Len(asc) >>
            \o [ j \in 1 .. 2 * Len(asc) |->
                   LET k == (j + 1) \div 2
                   IN IF j % 2 = 1
                      THEN ZigZag(asc[k][1] - (IF k = 1 THEN 0 ELSE asc[k - 1][1]))
                      ELSE asc[k][2] ]

\* the index of the k-th bin of an IndexDeltasAndCounts payload that starts at p
RECURSIVE DeltaIndex(_, _, _)
DeltaIndex(bytes, p, k) ==
    IF k = 0 THEN 0
    ELSE DeltaIndex(bytes, p, k - 1) + UnZigZag(bytes[p + 1 + 2 * (k - 1)])

\* store.decode_and_merge_with(input, mode) with the input at position p: the
\* store afterwards and the position after the block, or an error
StoreDecodeAndMergeWith(s, bytes, p, mode) ==
    IF mode = "ContiguousCounts"
    THEN IF p + 1 > Len(bytes) \/ p + 1 + bytes[p + 1] > Len(bytes)
         THEN [ ok |-> FALSE, store |-> s, next |-> p ]
         ELSE LET lo == UnZigZag(bytes[p])
                  n == bytes[p + 1]
              IN [ ok |-> TRUE,
                   store |-> StoreAddBins(s, [ k \in 1 .. n |->
                                                 << lo + k - 1, bytes[p + 1 + k] >> ]),
                   next |-> p + 2 + n ]
    ELSE IF p > Len(bytes) \/ p + 2 * bytes[p] > Len(bytes)
         THEN [ ok |-> FALSE, store |-> s, next |-> p ]
         ELSE LET n == bytes[p]
              IN [ ok |-> TRUE,
                   store |-> StoreAddBins(s, [ k \in 1 .. n |->
                                                 << DeltaIndex(bytes, p, k),
                                                    bytes[p + 2 * k] >> ]),
                   next |-> p + 1 + 2 * n ]

\* encode without the zero-count block
EncodeNoZeroCount(s, mode) ==
    IndexMappingEncode(s.index_mapping)
    \o StoreEncode(s.positive_value_store, PositiveStore, mode)
    \o StoreEncode(s.negative_value_store, NegativeStore, mode)

\* encode(): the mapping block, the zero-count block iff zero_count # 0, the
\* positive store's block, the negative store's block
Encode(s, mode) ==
    IndexMappingEncode(s.index_mapping)
    \o (IF s.zero_count # 0 THEN << ZERO_COUNT, s.zero_count >> ELSE << >>)
    \o StoreEncode(s.positive_value_store, PositiveStore, mode)
    \o StoreEncode(s.negative_value_store, NegativeStore, mode)

\* what decode() holds while it reads: the stores, the mapping decoded so far
\* (None before the first), zero_count, and whether a read has failed
DecodeStart ==
    [ positive_value_store |-> UnboundedSizeDenseStoreNew,
      negative_value_store |-> UnboundedSizeDenseStoreNew,
      index_mapping |-> None,
      zero_count |-> 0,
      failed |-> FALSE ]

\* the loop of decode(), with the input at position p
RECURSIVE DecodeLoop(_, _, _)
DecodeLoop(bytes, p, d) ==
    IF p > Len(bytes) THEN d
    ELSE LET flag == bytes[p]
             fail == [ d EXCEPT !.failed = TRUE ]
         IN CASE GetType(flag) = PositiveStore ->
                   IF ModeOfFlag(flag) = None THEN fail
                   ELSE LET r == StoreDecodeAndMergeWith(d.positive_value_store, bytes,
                                                         p + 1, ModeOfFlag(flag)[1])
                        IN IF ~r.ok THEN fail
                           ELSE DecodeLoop(bytes, r.next,
                                           [ d EXCEPT !.positive_value_store = r.store ])
              [] GetType(flag) = NegativeStore ->
                   IF ModeOfFlag(flag) = None THEN fail
                   ELSE LET r == StoreDecodeAndMergeWith(d.negative_value_store, bytes,
                                                         p + 1, ModeOfFlag(flag)[1])
                        IN IF ~r.ok THEN fail
                           ELSE DecodeLoop(bytes, r.next,
                                           [ d EXCEPT !.negative_value_store = r.store ])
              [] GetType(flag) = IndexMapping ->
                   IF LayoutOfFlag(flag) = None \/ p + 2 > Len(bytes) THEN fail
                   ELSE LET m == WithGammaOffset(LayoutOfFlag(flag)[1], bytes[p + 1],
                                                 bytes[p + 2])
                        IN IF m = None THEN fail
                           ELSE DecodeLoop(bytes, p + 3, [ d EXCEPT !.index_mapping = m ])
              [] OTHER ->
                   IF p + 1 > Len(bytes) THEN fail
                   ELSE IF flag = ZERO_COUNT
                   THEN DecodeLoop(bytes, p + 2,
                                   [ d EXCEPT !.zero_count = @ + bytes[p + 1] ])
                   ELSE DecodeLoop(bytes, p + 2, d)

\* decode(bytes): the result, and the sketch when it is Ok
Decode(bytes) ==
    LET d == DecodeLoop(bytes, 1, DecodeStart)
    IN IF d.failed \/ d.index_mapping = None
       THEN [ res |-> "InvalidArgument", sketch |-> None ]
       ELSE [ res |-> "Ok",
              sketch |->
                Some([ index_mapping |-> d.index_mapping[1],
                       negative_value_store |-> d.negative_value_store,
                       positive_value_store |-> d.positive_value_store,
                       min_indexed_value |->
                         Max2(0, MinIndexableValue(d.index_mapping[1])),
                       max_indexed_value |-> MaxIndexableValue(d.index_mapping[1]),
                       zero_count |-> d.zero_count ]) ]

\* the message of an error that a callee returned and ? passes on
PassedOn == "passed on"

\* what decode_and_merge_with returns when a read fails: the sketch as the
\* blocks read so far have left it, and the error
Failed(s, msg) == [ sketch |-> s, res |-> "InvalidArgument", msg |-> msg ]

\* the loop of decode_and_merge_with, with the input at position p: every block
\* is merged into the sketch as it is read
RECURSIVE DecodeAndMergeLoop(_, _, _)
DecodeAndMergeLoop(bytes, p, s) ==
    IF p > Len(bytes) THEN [ sketch |-> s, res |-> "Ok", msg |-> "" ]
    ELSE LET flag == bytes[p]
         IN CASE GetType(flag) = PositiveStore ->
                   IF ModeOfFlag(flag) = None THEN Failed(s, PassedOn)
                   ELSE LET r == StoreDecodeAndMergeWith(s.positive_value_store, bytes,
                                                         p + 1, ModeOfFlag(flag)[1])
                        IN IF ~r.ok THEN Failed(s, PassedOn)
                           ELSE DecodeAndMergeLoop(bytes, r.next,
                                  [ s EXCEPT !.positive_value_store = r.store ])
              [] GetType(flag) = NegativeStore ->
                   IF ModeOfFlag(flag) = None THEN Failed(s, PassedOn)
                   ELSE LET r == StoreDecodeAndMergeWith(s.negative_value_store, bytes,
                                                         p + 1, ModeOfFlag(flag)[1])
                        IN IF ~r.ok THEN Failed(s, PassedOn)
                           ELSE DecodeAndMergeLoop(bytes, r.next,
                                  [ s EXCEPT !.negative_value_store = r.store ])
              [] GetType(flag) = IndexMapping ->
                   IF LayoutOfFlag(flag) = None THEN Failed(s, PassedOn)
                   ELSE IF p + 2 > Len(bytes) THEN Failed(s, PassedOn)
                   ELSE LET m == WithGammaOffset(LayoutOfFlag(flag)[1], bytes[p + 1],
                                                 bytes[p + 2])
                        IN IF m = None THEN Failed(s, PassedOn)
                           ELSE IF s.index_mapping # m[1]
                           THEN Failed(s, "Unmatched IndexMapping")
                           ELSE DecodeAndMergeLoop(bytes, p + 3, s)
              [] OTHER ->
                   IF p + 1 > Len(bytes) THEN Failed(s, PassedOn)
                   ELSE IF flag = ZERO_COUNT
                   THEN DecodeAndMergeLoop(bytes, p + 2,
                          [ s EXCEPT !.zero_count = @ + bytes[p + 1] ])
                   ELSE DecodeAndMergeLoop(bytes, p + 2, s)

\* decode_and_merge_with(bytes): the sketch afterwards, the result and the
\* message of its error
DecodeAndMergeWith(s, bytes) == DecodeAndMergeLoop(bytes, 1, s)

\* ----------------------------------------------------------- schema mapper

\* From<IndexMapping> for MessageField<proto::ddsketch::IndexMapping>
IndexMappingToProto(m) ==
    [ gamma |-> m.gamma,
      indexOffset |-> m.index_offset,
      interpolation |-> IF m.layout = "LOG" THEN "NONE" ELSE "CUBIC" ]

\* From<MessageField<proto::ddsketch::IndexMapping>> for IndexMapping
IndexMappingFromProto(proto) ==
    IF proto.interpolation = "NONE"
    THEN WithGammaOffset("LOG", proto.gamma, proto.indexOffset)[1]
    ELSE WithGammaOffset("LogCubic", proto.gamma, proto.indexOffset)[1]

\* the store's record with the array position of min_index for its offset
StoreToProtoArrayOffset(s) ==
    IF ~StoreIsEmpty(s)
    THEN LET i0 == StoreMinIndex(s) - StoreOffset(s)
             limit == StoreMaxIndex(s) - StoreOffset(s)
         IN [ binCounts |-> EmptyBins,
              contiguousBinIndexOffset |-> i0,
              contiguousBinCounts |->
                [ k \in 1 .. (limit - i0 + 1) |-> StoreGetCount(s, i0 + k - 1) ] ]
    ELSE [ binCounts |-> EmptyBins,
           contiguousBinIndexOffset |-> 0,
           contiguousBinCounts |-> << >> ]

\* From<Box<dyn Store>> for MessageField<proto::ddsketch::Store>
StoreToProto(s) ==
    IF ~StoreIsEmpty(s)
    THEN LET i0 == StoreMinIndex(s) - StoreOffset(s)
             limit == StoreMaxIndex(s) - StoreOffset(s)
         IN [ binCounts |-> EmptyBins,
              contiguousBinIndexOffset |-> StoreMinIndex(s),
              contiguousBinCounts |->
                [ k \in 1 .. (limit - i0 + 1) |-> StoreGetCount(s, i0 + k - 1) ] ]
    ELSE [ binCounts |-> EmptyBins,
           contiguousBinIndexOffset |-> 0,
           contiguousBinCounts |-> << >> ]

\* From<MessageField<proto::ddsketch::Store>> for UnboundedSizeDenseStore
StoreFromProto(proto) ==
    LET sparse == AscSeq(DOMAIN proto.binCounts)
        fromMap == StoreAddBins(UnboundedSizeDenseStoreNew,
                                [ k \in 1 .. Len(sparse) |->
                                    << sparse[k], proto.binCounts[sparse[k]] >> ])
    IN StoreAddBins(fromMap,
                    [ k \in 1 .. Len(proto.contiguousBinCounts) |->
                        << proto.contiguousBinIndexOffset + k - 1,
                           proto.contiguousBinCounts[k] >> ])

\* From<DDSketch> for proto::ddsketch::DDSketch
ToProto(s) ==
    [ mapping |-> IndexMappingToProto(s.index_mapping),
      positiveValues |-> StoreToProto(s.positive_value_store),
      negativeValues |-> StoreToProto(s.negative_value_store),
      zeroCount |-> s.zero_count ]

\* From<proto::ddsketch::DDSketch> for DDSketch
FromProto(proto) ==
    LET m == IndexMappingFromProto(proto.mapping)
    IN [ index_mapping |-> m,
         min_indexed_value |-> Max2(0, MinIndexableValue(m)),
         max_indexed_value |-> MaxIndexableValue(m),
         negative_value_store |-> StoreFromProto(proto.negativeValues),
         positive_value_store |-> StoreFromProto(proto.positiveValues),
         zero_count |-> proto.zeroCount ]

\* ----------------------------------------------------------- state machine

\* the values and counts accept_with_count is called with; Top is the
\* max_indexable_value of the factories' mapping
Top == Pow(2, MaxExp)

Values == { -(Top + 1), -Top, -4, -2, -1, 0, 1, 2, 3, 4, Top, Top + 1 }

Counts == { -1, 0, 1, 2 }

NoArg == << >>

\* the values the sketches handed to merge_with have accepted
OtherValues == { -2, 0, 2, Top }

ValueSeqs(n) == UNION { [ 1 .. k -> OtherValues ] : k \in 0 .. n }

RECURSIVE AcceptAll(_, _)
AcceptAll(s, vs) == IF vs = << >> THEN s ELSE AcceptAll(Accept(s, Head(vs)), Tail(vs))

\* mappings a decoded sketch can carry, each differing from a factory's in one
\* field: gamma, index_offset
ForeignMappings ==
    { WithGammaOffset("LogCubic", 3, 0)[1], WithGammaOffset("LogCubic", 2, 1)[1] }

\* the sketches merge_with is handed: what a factory or a decode returned, after
\* some accepts
Others ==
    { AcceptAll(f, vs) : f \in Factories, vs \in ValueSeqs(MaxOtherLen) }
    \cup { AcceptAll(NewSketch(m, "UnboundedSizeDense", 0), vs) :
             m \in ForeignMappings, vs \in ValueSeqs(1) }

\* the sketches whose blocks decode_and_merge_with is handed
StreamSources ==
    { AcceptAll(NewSketch(WithRelativeAccuracy("LogCubic"), "UnboundedSizeDense", 0), vs) :
        vs \in UNION { [ 1 .. k -> { -2, 0, 2 } ] : k \in 0 .. MaxOtherLen } }

\* the mappings of the IndexMapping block of a stream handed to s: its own, or
\* one that differs from it
StreamMappings(s) == ForeignMappings \cup { s.index_mapping }

\* the blocks of o other than its mapping's, in the order encode writes them
StreamBlocks(o, mode) ==
    (IF o.zero_count # 0 THEN << << ZERO_COUNT, o.zero_count >> >> ELSE << >>)
    \o << StoreEncode(o.positive_value_store, PositiveStore, mode),
          StoreEncode(o.negative_value_store, NegativeStore, mode) >>

RECURSIVE Flatten(_)
Flatten(blocks) == IF blocks = << >> THEN << >> ELSE Head(blocks) \o Flatten(Tail(blocks))

\* the stream of o's blocks with the block of mapping m after the first at of them
Stream(o, m, mode, at) ==
    Flatten(SubSeq(StreamBlocks(o, mode), 1, at))
    \o IndexMappingEncode(m)
    \o Flatten(SubSeq(StreamBlocks(o, mode), at + 1, Len(StreamBlocks(o, mode))))

\* what of o the first at blocks of the stream hold
Before(o, at) ==
    LET z == IF o.zero_count # 0 THEN 1 ELSE 0
    IN [ zero_count |-> IF z = 1 /\ at >= 1 THEN o.zero_count ELSE 0,
         positive_value_store |-> IF at >= z + 1 THEN o.positive_value_store
                                  ELSE UnboundedSizeDenseStoreNew,
         negative_value_store |-> IF at >= z + 2 THEN o.negative_value_store
                                  ELSE UnboundedSizeDenseStoreNew ]

\* last is the call in progress: the operation, the sketch it was called on, its
\* arguments and its result; between calls it is Idle(sketch)
Idle(s) == [ op |-> "none", pre |-> s, arg |-> NoArg, res |-> "Ok" ]

Init ==
    /\ sketch \in Factories
    /\ last = Idle(sketch)

DoAccept ==
    \E v \in Values, c \in Counts :
        /\ last.op = "none"
        /\ GetCount(sketch) < MaxCount
        /\ sketch' = AcceptWithCount(sketch, v, c)
        /\ last' = [ op |-> "accept", pre |-> sketch, arg |-> << v, c >>, res |-> "Ok" ]

DoClear ==
    /\ last.op = "none"
    /\ sketch' = Clear(sketch)
    /\ last' = [ op |-> "clear", pre |-> sketch, arg |-> NoArg, res |-> "Ok" ]

DoMerge ==
    \E other \in Others :
        /\ last.op = "none"
        /\ GetCount(sketch) + GetCount(other) <= MaxCount
        /\ sketch' = MergeWith(sketch, other).sketch
        /\ last' = [ op |-> "merge", pre |-> sketch, arg |-> other,
                     res |-> MergeWith(sketch, other).res ]

\* decode(encode()) of the sketch; the caller goes on with the decoded sketch
DoEncodeDecode ==
    \E mode \in BinEncodingModes :
        /\ last.op = "none"
        /\ sketch' = IF Decode(Encode(sketch, mode)).res = "Ok"
                     THEN Decode(Encode(sketch, mode)).sketch[1]
                     ELSE sketch
        /\ last' = [ op |-> "codec", pre |-> sketch, arg |-> Encode(sketch, mode),
                     res |-> Decode(Encode(sketch, mode)).res ]

\* no block stands before the block of the mapping
NothingBefore ==
    [ zero_count |-> 0,
      positive_value_store |-> UnboundedSizeDenseStoreNew,
      negative_value_store |-> UnboundedSizeDenseStoreNew ]

\* decode_and_merge_with(bytes) on a stream of blocks
DoDecodeAndMerge ==
    \E o \in StreamSources, m \in StreamMappings(sketch), mode \in BinEncodingModes,
       at \in 0 .. 3 :
        /\ last.op = "none"
        /\ at <= Len(StreamBlocks(o, mode))
        /\ GetCount(sketch) + GetCount(o) <= MaxCount
        /\ sketch' = DecodeAndMergeWith(sketch, Stream(o, m, mode, at)).sketch
        /\ last' = [ op |-> "decode_merge", pre |-> sketch,
                     arg |-> [ bytes |-> Stream(o, m, mode, at), mapping |-> m,
                               before |-> Before(o, at) ],
                     res |-> DecodeAndMergeWith(sketch, Stream(o, m, mode, at)).res,
                     msg |-> DecodeAndMergeWith(sketch, Stream(o, m, mode, at)).msg ]

\* the sketch to the schema's record and back; the caller goes on with the
\* sketch converted back
DoProto ==
    /\ last.op = "none"
    /\ sketch' = FromProto(ToProto(sketch))
    /\ last' = [ op |-> "proto", pre |-> sketch, arg |-> ToProto(sketch), res |-> "Ok" ]

\* the call returns to its caller
Return ==
    /\ last.op # "none"
    /\ last' = Idle(sketch)
    /\ UNCHANGED sketch

Next ==
    \/ DoAccept
    \/ DoClear
    \/ DoMerge
    \/ DoEncodeDecode
    \/ DoProto
    \/ Return

Spec == Init /\ [][Next]_vars

\* a sketch that receives encoded blocks: it accepts values, is cleared, and
\* merges the streams it is handed
StreamNext ==
    \/ DoAccept
    \/ DoClear
    \/ DoDecodeAndMerge
    \/ Return

StreamSpec == Init /\ [][StreamNext]_vars

\* ------------------------------------------------------------------ claims

\* the last operation was accept_with_count(LastValue, LastCount) on last.pre
Accepted == last.op = "accept"

LastValue == last.arg[1]

LastCount == last.arg[2]

Abs(v) == IF v < 0 THEN -v ELSE v

\* the call is one the range check or the sign check of the count drops
Dropped ==
    \/ LastCount < 0
    \/ Abs(LastValue) > MaxIndexableValue(last.pre.index_mapping)

\* C1: every accept_with_count(v, c) that is not dropped raises get_count() by c
C1_CountConservation ==
    (Accepted /\ ~Dropped) => GetCount(sketch) = GetCount(last.pre) + LastCount

\* C2: a dropped accept_with_count(v, c) (c < 0, or |v| > max_indexable_value)
\* leaves both stores and zero_count as they were, raises no error, and every
\* query returns what it returned before the call
C2_SilentDrop ==
    (Accepted /\ Dropped) =>
        /\ sketch.positive_value_store = last.pre.positive_value_store
        /\ sketch.negative_value_store = last.pre.negative_value_store
        /\ sketch.zero_count = last.pre.zero_count
        /\ last.res = "Ok"
        /\ Queries(sketch) = Queries(last.pre)

C2_Witness ==
    /\ Accepted
    /\ LastCount >= 0
    /\ LastValue > MaxIndexableValue(last.pre.index_mapping)
    /\ ~IsEmpty(sketch)

\* every bin of store t other than those of the set S holds what it held in store s
SameBinsExcept(s, t, S) ==
    \A i \in (DOMAIN s.bins \cup DOMAIN t.bins) \ S : BinCount(s, i) = BinCount(t, i)

\* the bin a store files index j under once index i is added to it: j itself,
\* or the edge of the window of cap indices a collapsing store keeps
FiledWith(s, j, i) ==
    Collapse(s, j, SetMin(DOMAIN s.bins \cup { i }), SetMax(DOMAIN s.bins \cup { i }))

FiledAt(s, i) == FiledWith(s, i, i)

\* the bins a collapsing store rewrites when index i is added to it: those its
\* window leaves behind and the edge bin they are folded into
Folded(s, i) ==
    LET moved == { j \in DOMAIN s.bins \cup { i } : FiledWith(s, j, i) # j }
    IN moved \cup { FiledWith(s, j, i) : j \in moved }

\* C3 as stated: a non-dropped accept_with_count(v, c) changes only the positive
\* store, at bin index(v), for v > min_indexable_value; only the negative
\* store, at bin index(-v), for v < -min_indexable_value; only zero_count
\* otherwise
C3_RoutingAtIndex ==
    (Accepted /\ ~Dropped) =>
        LET m == last.pre.index_mapping
            min == MinIndexableValue(m)
        IN CASE LastValue > min ->
                  /\ sketch.negative_value_store = last.pre.negative_value_store
                  /\ sketch.zero_count = last.pre.zero_count
                  /\ SameBinsExcept(last.pre.positive_value_store,
                                    sketch.positive_value_store,
                                    { Index(m, LastValue) })
             [] LastValue < -min ->
                  /\ sketch.positive_value_store = last.pre.positive_value_store
                  /\ sketch.zero_count = last.pre.zero_count
                  /\ SameBinsExcept(last.pre.negative_value_store,
                                    sketch.negative_value_store,
                                    { Index(m, -LastValue) })
             [] OTHER ->
                  /\ sketch.positive_value_store = last.pre.positive_value_store
                  /\ sketch.negative_value_store = last.pre.negative_value_store

\* C3 amended: the same routing, where the bin that changes is index(v) for an
\* unbounded store; a collapsing store files index(v) within its window of
\* max_num_bins indices, and the only other bins that change are those the
\* window leaves behind and the edge bin they are folded into
C3_Routing ==
    (Accepted /\ ~Dropped) =>
        LET m == last.pre.index_mapping
            min == MinIndexableValue(m)
            routed(s, t, i) ==
                /\ SameBinsExcept(s, t, { FiledAt(s, i) } \cup Folded(s, i))
                /\ s.kind = "UnboundedSizeDense" =>
                     (FiledAt(s, i) = i /\ Folded(s, i) = {})
        IN CASE LastValue > min ->
                  /\ sketch.negative_value_store = last.pre.negative_value_store
                  /\ sketch.zero_count = last.pre.zero_count
                  /\ routed(last.pre.positive_value_store,
                            sketch.positive_value_store, Index(m, LastValue))
             [] LastValue < -min ->
                  /\ sketch.positive_value_store = last.pre.positive_value_store
                  /\ sketch.zero_count = last.pre.zero_count
                  /\ routed(last.pre.negative_value_store,
                            sketch.negative_value_store, Index(m, -LastValue))
             [] OTHER ->
                  /\ sketch.positive_value_store = last.pre.positive_value_store
                  /\ sketch.negative_value_store = last.pre.negative_value_store

\* a value of exactly -min_indexable_value went to the zero bucket of a sketch
\* that holds positive and negative bins
C3_Witness ==
    /\ Accepted /\ ~Dropped
    /\ LastValue = -MinIndexableValue(last.pre.index_mapping)
    /\ ~StoreIsEmpty(sketch.positive_value_store)
    /\ ~StoreIsEmpty(sketch.negative_value_store)
    /\ sketch.zero_count = last.pre.zero_count + 1

\* the elements get_value_at_quantile walks, each << representative, count >>:
\* the negative bins by descending index, the zero bucket, the positive bins by
\* ascending index
Elements(s) ==
    LET m == s.index_mapping
        neg == StoreDescending(s.negative_value_store)
        pos == StoreAscending(s.positive_value_store)
    IN [ k \in 1 .. Len(neg) |-> << -Value(m, neg[k][1]), neg[k][2] >> ]
       \o << << 0, s.zero_count >> >>
       \o [ k \in 1 .. Len(pos) |-> << Value(m, pos[k][1]), pos[k][2] >> ]

RECURSIVE PrefixCount(_, _)
PrefixCount(es, j) == IF j = 0 THEN 0 ELSE es[j][2] + PrefixCount(es, j - 1)

\* the elements of es whose running count n is strictly above
\* rank = k/QDen * (count - 1)
Above(es, count, k) ==
    LET n == [ j \in 1 .. Len(es) |-> PrefixCount(es, j) ]
    IN { j \in 1 .. Len(es) : n[j] * QDen > k * (count - 1) }

\* C4: get_value_at_quantile(q) is None for q outside [0, 1] or an empty sketch,
\* and otherwise the representative of the first element, in the order negative
\* bins descending, zero bucket, positive bins ascending, at which the running
\* count n is strictly above rank = q * (get_count() - 1)
C4_Quantile ==
    LET es == Elements(sketch)
        count == GetCount(sketch)
    IN \A k \in Quantiles :
        GetValueAtQuantile(sketch, k) =
            IF k < 0 \/ k > QDen \/ IsEmpty(sketch) THEN None
            ELSE IF Above(es, count, k) = {} THEN None
            ELSE Some(es[SetMin(Above(es, count, k))][1])

\* a sketch with negative, zero and positive values where the running count
\* equals the rank at the first element, which is passed over
C4_Witness ==
    /\ ~StoreIsEmpty(sketch.negative_value_store)
    /\ ~StoreIsEmpty(sketch.positive_value_store)
    /\ sketch.zero_count > 0
    /\ \E k \in 1 .. QDen :
        /\ PrefixCount(Elements(sketch), 1) * QDen = k * (GetCount(sketch) - 1)
        /\ GetValueAtQuantile(sketch, k) = Some(0)

\* the last operation was merge_with(Other) on last.pre
Merged == last.op = "merge"

Other == last.arg

\* the counts a sketch holds: every bin of both stores, and zero_count
CountsOf(s) ==
    [ positive |-> s.positive_value_store.bins,
      negative |-> s.negative_value_store.bins,
      zero |-> s.zero_count ]

Unbounded(s) ==
    /\ s.positive_value_store.kind = "UnboundedSizeDense"
    /\ s.negative_value_store.kind = "UnboundedSizeDense"

\* every bin of store t holds the sum of its counts in stores s and o
BinsAdded(s, o, t) ==
    \A i \in DOMAIN s.bins \cup DOMAIN o.bins \cup DOMAIN t.bins :
        BinCount(t, i) = BinCount(s, i) + BinCount(o, i)

\* S1.merge_with(S2) and S2.merge_with(S1) end with the same counts
Commutes(s1, s2) ==
    CountsOf(MergeWith(s1, s2).sketch) = CountsOf(MergeWith(s2, s1).sketch)

\* (S1.merge_with(S2)).merge_with(S3) and S1.merge_with(S2.merge_with(S3)) end
\* with the same counts
Associates(s1, s2, s3) ==
    CountsOf(MergeWith(MergeWith(s1, s2).sketch, s3).sketch)
        = CountsOf(MergeWith(s1, MergeWith(s2, s3).sketch).sketch)

\* the sketches of Others that share the mapping of s
Mergeable(s) == { o \in Others : o.index_mapping = s.index_mapping }

\* C5 as stated: after S1.merge_with(S2) on equal mappings, every bin and
\* zero_count of S1 hold the sum of the old S1's and S2's, get_count() is the
\* sum of the two counts, and the counts are the same whichever way round the
\* merge is done and however three sketches are grouped
C5_MergeIdentityAllStores ==
    (Merged /\ last.pre.index_mapping = Other.index_mapping) =>
        /\ BinsAdded(last.pre.positive_value_store, Other.positive_value_store,
                     sketch.positive_value_store)
        /\ BinsAdded(last.pre.negative_value_store, Other.negative_value_store,
                     sketch.negative_value_store)
        /\ sketch.zero_count = last.pre.zero_count + Other.zero_count
        /\ GetCount(sketch) = GetCount(last.pre) + GetCount(Other)
        /\ Commutes(last.pre, Other)
        /\ \A third \in Mergeable(last.pre) : Associates(last.pre, Other, third)

\* C5 amended: zero_count and get_count() are the sums for every store; the
\* bins are the sums when S1 is on unbounded stores; the counts are the same
\* either way round and however grouped when every sketch that receives a
\* merge (S1 and S2) is on unbounded stores
C5_MergeIdentity ==
    (Merged /\ last.pre.index_mapping = Other.index_mapping) =>
        /\ last.res = "Ok"
        /\ sketch.zero_count = last.pre.zero_count + Other.zero_count
        /\ GetCount(sketch) = GetCount(last.pre) + GetCount(Other)
        /\ Unbounded(last.pre) =>
             /\ BinsAdded(last.pre.positive_value_store, Other.positive_value_store,
                          sketch.positive_value_store)
             /\ BinsAdded(last.pre.negative_value_store, Other.negative_value_store,
                          sketch.negative_value_store)
        /\ (Unbounded(last.pre) /\ Unbounded(Other)) =>
             /\ Commutes(last.pre, Other)
             /\ \A third \in Mergeable(last.pre) : Associates(last.pre, Other, third)

\* two sketches on unbounded stores that share a bin were merged, and a third
\* sketch that holds values can be merged with them
C5_Witness ==
    /\ Merged /\ last.res = "Ok"
    /\ Unbounded(last.pre) /\ Unbounded(Other)
    /\ \E i \in DOMAIN last.pre.positive_value_store.bins :
         /\ i \in DOMAIN Other.positive_value_store.bins
         /\ BinCount(sketch.positive_value_store, i) > 1
    /\ Other.zero_count > 0
    /\ \E third \in Mergeable(last.pre) : ~IsEmpty(third)

\* C6: merge_with on unequal mappings returns InvalidArgument and leaves both
\* stores and zero_count of the receiving sketch as they were
C6_MergeMismatch ==
    (Merged /\ last.pre.index_mapping # Other.index_mapping) =>
        /\ last.res = "InvalidArgument"
        /\ sketch.positive_value_store = last.pre.positive_value_store
        /\ sketch.negative_value_store = last.pre.negative_value_store
        /\ sketch.zero_count = last.pre.zero_count

\* a sketch that holds values was handed one that holds values under another gamma
C6_Witness ==
    /\ Merged
    /\ last.pre.index_mapping.gamma # Other.index_mapping.gamma
    /\ last.pre.index_mapping.layout = Other.index_mapping.layout
    /\ ~IsEmpty(last.pre) /\ ~IsEmpty(Other)
    /\ last.res = "InvalidArgument"

\* what get_count, get_min, get_max and every quantile return
Statistics(s) ==
    [ count |-> GetCount(s), min |-> GetMin(s), max |-> GetMax(s),
      quantile |-> [ k \in Quantiles |-> GetValueAtQuantile(s, k) ] ]

\* C7: decode(encode(S)) succeeds and yields the mapping, the zero_count and
\* the count of every positive and negative bin of S, and so the same
\* get_count(), get_min(), get_max() and quantiles
C7_EncodeDecode ==
    last.op = "codec" =>
        /\ last.res = "Ok"
        /\ sketch.index_mapping = last.pre.index_mapping
        /\ CountsOf(sketch) = CountsOf(last.pre)
        /\ Statistics(sketch) = Statistics(last.pre)

\* a sketch on collapsing stores that holds negative, zero and positive values
\* was encoded and decoded
C7_Witness ==
    /\ last.op = "codec"
    /\ ~Unbounded(last.pre)
    /\ ~StoreIsEmpty(last.pre.negative_value_store)
    /\ ~StoreIsEmpty(last.pre.positive_value_store)
    /\ last.pre.zero_count > 0
    /\ GetCount(sketch) = MaxCount

\* C8: an empty sketch answers None to get_min, get_max, get_sum, get_average
\* and get_value_at_quantile(q) for every q
C8_EmptySemantics ==
    IsEmpty(sketch) =>
        /\ GetMin(sketch) = None
        /\ GetMax(sketch) = None
        /\ GetSum(sketch) = None
        /\ GetAverage(sketch) = None
        /\ \A k \in Quantiles : GetValueAtQuantile(sketch, k) = None

\* clear() emptied a sketch that held values
C8_Witness ==
    /\ last.op = "clear"
    /\ GetCount(last.pre) > 1
    /\ IsEmpty(sketch)
    /\ GetMin(sketch) = None

\* C9: get_min() <= get_max() whenever both return a value
C9_MinLeMax ==
    (GetMin(sketch) # None /\ GetMax(sketch) # None) =>
        GetMin(sketch)[1] <= GetMax(sketch)[1]

\* a sketch of negative values only, in two bins
C9_Witness ==
    /\ StoreIsEmpty(sketch.positive_value_store)
    /\ sketch.zero_count = 0
    /\ Cardinality(DOMAIN sketch.negative_value_store.bins) > 1
    /\ GetMin(sketch)[1] < GetMax(sketch)[1]

\* the record of store s starts at min_index and holds one count for each index
\* up to max_index
Contiguous(s, proto) ==
    ~StoreIsEmpty(s) =>
        /\ proto.contiguousBinIndexOffset = StoreMinIndex(s)
        /\ Len(proto.contiguousBinCounts) = StoreMaxIndex(s) - StoreMinIndex(s) + 1

Mismatched ==
    /\ last.op = "decode_merge"
    /\ last.arg.mapping # last.pre.index_mapping

Unmatched == last.res = "InvalidArgument" /\ last.msg = "Unmatched IndexMapping"

\* C11: decode_and_merge_with on a stream with a mismatching
\* IndexMapping block returns InvalidArgument("Unmatched IndexMapping") and
\* leaves both stores and zero_count as they were, wherever the block stands
C11_MismatchLeavesUnchanged ==
    Mismatched =>
        /\ Unmatched
        /\ sketch.positive_value_store = last.pre.positive_value_store
        /\ sketch.negative_value_store = last.pre.negative_value_store
        /\ sketch.zero_count = last.pre.zero_count

\* what the call does on such a stream: it returns
\* InvalidArgument("Unmatched IndexMapping") with the blocks before the
\* mismatching block merged into the sketch and the blocks after it not
\* merged, so the sketch is as it was only when the mismatching block comes
\* first
C11_MismatchStopsMerge ==
    Mismatched =>
        /\ Unmatched
        /\ sketch.index_mapping = last.pre.index_mapping
        /\ sketch.zero_count = last.pre.zero_count + last.arg.before.zero_count
        /\ sketch.positive_value_store =
             StoreMergeWith(last.pre.positive_value_store,
                            StoreDescending(last.arg.before.positive_value_store))
        /\ sketch.negative_value_store =
             StoreMergeWith(last.pre.negative_value_store,
                            StoreDescending(last.arg.before.negative_value_store))
        /\ (last.arg.before = NothingBefore => sketch = last.pre)

\* C11's case: a mismatching block after a zero-count block and a store
\* block, met by a sketch that holds values; the call fails with the two
\* blocks merged
C11_Witness ==
    /\ Mismatched
    /\ Unmatched
    /\ ~IsEmpty(last.pre)
    /\ last.arg.before.zero_count > 0
    /\ ~StoreIsEmpty(last.arg.before.positive_value_store)
    /\ sketch.zero_count > last.pre.zero_count
    /\ sketch.positive_value_store # last.pre.positive_value_store

\* C12: for every non-empty sketch, get_value_at_quantile(q) is a value for
\* every q in [0, 1], get_value_at_quantile(0) is get_min() and
\* get_value_at_quantile(1) is get_max()
C12_QuantileEndpoints ==
    ~IsEmpty(sketch) =>
        /\ \A k \in 0 .. QDen : GetValueAtQuantile(sketch, k) # None
        /\ GetValueAtQuantile(sketch, 0) = GetMin(sketch)
        /\ GetValueAtQuantile(sketch, QDen) = GetMax(sketch)

\* a sketch of a negative value, a zero and a positive value, reached by a merge
C12_Witness ==
    /\ last.op = "merge"
    /\ ~StoreIsEmpty(sketch.negative_value_store)
    /\ sketch.zero_count > 0
    /\ ~StoreIsEmpty(sketch.positive_value_store)
    /\ GetValueAtQuantile(sketch, 0) = GetMin(sketch)
    /\ GetValueAtQuantile(sketch, 0)[1] < 0
    /\ GetValueAtQuantile(sketch, QDen) = GetMax(sketch)
    /\ GetValueAtQuantile(sketch, QDen)[1] > 0

====
